---- MODULE Spec2Model ----
(***************************************************************************)
(* IAJ Management Hub (src/main.py): the retrying probe executor           *)
(* (check_system_health over retry_with_backoff), the fan-out runner       *)
(* (run_health_checks) with its store writes and alert events, the TTL     *)
(* cache (cached / CACHE) in front of get_health_overview and              *)
(* get_recommendations, the retention sweep (cleanup_old_data), the        *)
(* recommendation synthesis (generate_recommendations and its two callers), *)
(* the performance metrics (get_performance_metrics), and the startup and  *)
(* shutdown of the process (lifespan and the AsyncIOScheduler).            *)
(*                                                                         *)
(* Python None is modelled as the string "None" in text fields and as      *)
(* NoneNum (-1) in numeric fields, which are never negative otherwise.     *)
(***************************************************************************)
EXTENDS Integers, Sequences, FiniteSets, TLC

VARIABLES
    \* ---- one call of check_system_health (the Probe Executor) ----
    ppc,            \* position: "attempt" | "sleep" | "done"
    system_key,     \* the target being probed
    net,            \* what the network does on the 1st, 2nd, ... attempt
    attempt,        \* loop variable of retry_with_backoff
    calls,          \* number of attempt_check() calls made so far
    delays,         \* the asyncio.sleep delays made so far, in order
    elapsed,        \* seconds since start_time
    last,           \* how the latest attempt ended
    ret,            \* what check_system_health gave its caller
    \* ---- the store (Supabase tables) ----
    system_health,  \* rows of table system_health, in insertion order
    workflow_events,\* rows of table workflow_events, in insertion order
    next_id,        \* the identity the next system_health row gets
    ai_recommendations, \* rows of table ai_recommendations, in insertion order
    \* ---- the recommendation generator (the Anthropic API) ----
    replies,        \* how its next calls end, in order
    \* ---- the process ----
    CACHE,          \* the CACHE dict
    clock,          \* time.time()
    rpc,            \* run_health_checks: "idle" | "gather"
    rsystems,       \* the keys of its systems argument, in dict order
    rcaller,        \* who awaits it: "scheduler" | "trigger_health_check"
    \* ---- one call of cleanup_old_data (the retention sweep) ----
    cpc,            \* position: "idle" | "count" | "boundary" | "delete"
    ci,             \* index in SYSTEMS.keys() of the target being swept
    total_count,    \* response.count of the count query
    cutoff_id,      \* records.data[0]["id"] of the boundary query
    \* ---- history (not program state) ----
    rlog,           \* what the latest run met and did, once it has completed
    lastRead,       \* how the latest call of get_health_overview ended
    stored,         \* <<[at, value]>> since a read last stored a value that no
                    \* run has invalidated, <<>> otherwise
    invalidated_at, \* rows ever inserted when the cache was last invalidated
    clog,           \* the sweeps so far and what the latest one met and did
    glog,           \* what the latest synthesis cycle met and did
    mlog,           \* how the latest call of get_performance_metrics ended
    lastRecRead,    \* how the latest call of get_recommendations ended
    \* ---- lifespan and the scheduler ----
    lpc,            \* the statement of LifespanSteps that lifespan executes
                    \* next; past the last one it has yielded, one further
                    \* it has shut the scheduler down
    scheduler,      \* the AsyncIOScheduler: running, its job store
    slog            \* history: the calls of start, which jobs were added
                    \* to a running scheduler and which to a stopped one,
                    \* where lifespan was when the initial job began

probeVars == <<ppc, system_key, net, attempt, calls, delays, elapsed, last, ret>>
storeVars == <<system_health, workflow_events, next_id>>
runVars == <<rpc, rsystems, rcaller, rlog>>
cacheVars == <<CACHE, lastRead, stored, invalidated_at>>
cleanVars == <<cpc, ci, total_count, cutoff_id, clog>>
recVars == <<ai_recommendations, replies, glog, mlog, lastRecRead>>
startVars == <<lpc, scheduler, slog>>
extVars == <<cleanVars, recVars, startVars>>

vars == <<probeVars, storeVars, runVars, cacheVars, clock, extVars>>

NoneNum == -1

-----------------------------------------------------------------------------
(* Target registry *)

HighKeys == <<"story_grid_pro", "iaj_social_main">>
MediumKeysAll == <<"agent_training", "video_processor", "social_studio", "batch_studio">>

-----------------------------------------------------------------------------
(* The network: how one attempt_check() call can end *)

Resp(code, jsonOk) ==
    [kind |-> "response", code |-> code, jsonOk |-> jsonOk, msg |-> "None"]
TimeoutExc == [kind |-> "timeout", code |-> 0, jsonOk |-> FALSE, msg |-> ""]
ConnectExc ==
    [kind |-> "transport", code |-> 0, jsonOk |-> FALSE,
     msg |-> "All connection attempts failed"]
NoAttempt == [kind |-> "none", code |-> 0, jsonOk |-> FALSE, msg |-> "None"]

Outcomes == {Resp(200, TRUE), Resp(200, FALSE), Resp(503, TRUE), TimeoutExc, ConnectExc}

ScriptLen == 3

-----------------------------------------------------------------------------
(* retry_with_backoff(attempt_check, max_retries=2, base_delay=1) *)

max_retries == 2
base_delay == 1
AttemptTimeout == 10

RECURSIVE Pow2(_)
Pow2(n) == IF n = 0 THEN 1 ELSE 2 * Pow2(n - 1)

\* delay = base_delay * (2 ** attempt)
BackoffDelay(k) == base_delay * Pow2(k)

\* if attempt == max_retries - 1: raise e
\* The test against the first index of range(max_retries): no attempt is
\* followed by another one
IsLastAttemptFirst(k) == k = 0

IsLastAttempt(k) == k = max_retries - 1

\* An attempt that times out lasts the client timeout; the duration of the
\* other attempts is left out (0 s).
AttemptDuration(o) == IF o.kind = "timeout" THEN AttemptTimeout ELSE 0

-----------------------------------------------------------------------------
(* check_system_health: from the end of retry_with_backoff to the return *)

ProbeResult(key, status, rt, err, meta) ==
    [system_name |-> key, status |-> status, response_time_ms |-> rt,
     error_message |-> err, metadata |-> meta]

Returned(v) == [raised |-> FALSE, value |-> v]
Raised(msg) ==
    [raised |-> TRUE, value |-> ProbeResult("None", "None", NoneNum, msg, "None")]

JsonBody == "{\"status\": \"ok\"}"
JsonDecodeError == "Expecting value: line 1 column 1 (char 0)"

\* CheckSystemHealth without its "except Exception" clause: a transport
\* failure that outlives the retries reaches the caller.
CheckSystemHealthNoCatch(key, o, secs) ==
    IF o.kind = "response"
    THEN IF o.code = 200 /\ o.jsonOk
         THEN Returned(ProbeResult(key, "healthy", secs * 1000, "None", JsonBody))
         ELSE IF o.code = 200
         THEN Raised(JsonDecodeError)
         ELSE Returned(ProbeResult(key, "unhealthy", secs * 1000,
                                   "HTTP " \o ToString(o.code),
                                   "{\"status_code\": " \o ToString(o.code) \o "}"))
    ELSE IF o.kind = "timeout"
    THEN Returned(ProbeResult(key, "timeout", NoneNum,
                              "Request timeout after retries", "{}"))
    ELSE Raised(o.msg)

\* o: the response retry_with_backoff returned, or the exception it raised;
\* secs: the seconds between start_time and that moment.
CheckSystemHealth(key, o, secs) ==
    IF o.kind = "response"
    THEN IF o.code = 200
         THEN IF o.jsonOk
              THEN Returned(ProbeResult(key, "healthy", secs * 1000, "None", JsonBody))
              \* response.json() raises inside the try: except Exception
              ELSE Returned(ProbeResult(key, "error", NoneNum, JsonDecodeError, "{}"))
         ELSE Returned(ProbeResult(key, "unhealthy", secs * 1000,
                                   "HTTP " \o ToString(o.code),
                                   "{\"status_code\": " \o ToString(o.code) \o "}"))
    ELSE IF o.kind = "timeout"
    THEN Returned(ProbeResult(key, "timeout", NoneNum,
                              "Request timeout after retries", "{}"))
    ELSE Returned(ProbeResult(key, "error", NoneNum, o.msg, "{}"))

\* One pass of the loop body of retry_with_backoff: await func(), and either
\* the return / raise that ends check_system_health or the step to the sleep.
AttemptCheck ==
    /\ ppc = "attempt"
    /\ attempt + 1 <= Len(net)
    /\ LET o == net[attempt + 1]
           secs == elapsed + AttemptDuration(o)
       IN  /\ calls' = calls + 1
           /\ elapsed' = secs
           /\ last' = o
           /\ IF o.kind = "response" \/ IsLastAttempt(attempt)
              THEN /\ ret' = Append(ret, CheckSystemHealth(system_key, o, secs))
                   /\ ppc' = "done"
                   /\ UNCHANGED delays
              ELSE /\ delays' = Append(delays, BackoffDelay(attempt))
                   /\ ppc' = "sleep"
                   /\ UNCHANGED ret
    /\ UNCHANGED <<system_key, net, attempt>>
    /\ UNCHANGED <<storeVars, runVars, cacheVars, clock, extVars>>

\* await asyncio.sleep(delay), then the next iteration of the for loop
BackoffSleep ==
    /\ ppc = "sleep"
    /\ elapsed' = elapsed + delays[Len(delays)]
    /\ attempt' = attempt + 1
    /\ ppc' = "attempt"
    /\ UNCHANGED <<system_key, net, calls, delays, last, ret>>
    /\ UNCHANGED <<storeVars, runVars, cacheVars, clock, extVars>>

ProbeKeys == {HighKeys[1], MediumKeysAll[1]}

\* CACHE = {...}: both entries empty
InitCache ==
    CACHE = [key \in {"health_overview", "recommendations"} |->
               [data |-> <<>>, timestamp |-> NoneNum,
                ttl |-> IF key = "health_overview" THEN 60 ELSE 300]]

NoSweep ==
    [n |-> 0, before |-> <<>>, counted |-> {}, deleted |-> {}, during |-> {},
     mid |-> {}, writes |-> 0, dirty |-> FALSE, failed |-> FALSE, done |-> FALSE,
     after_clean |-> FALSE]

\* The statements of lifespan with scheduler.start() after the add_job calls
LifespanStepsStartLast ==
    <<"health_check_high_priority", "health_check_medium_priority",
      "daily_recommendations", "cleanup_old_data", "initial_health_check",
      "start", "yield">>

\* The statements of lifespan up to its yield, in the order of the source:
\* scheduler.start(), the add_job calls by job id, and the yield
LifespanSteps ==
    <<"start", "health_check_high_priority", "health_check_medium_priority",
      "daily_recommendations", "cleanup_old_data", "initial_health_check",
      "yield">>

\* The recurring jobs (interval and cron triggers)
RecurringJobs ==
    {"health_check_high_priority", "health_check_medium_priority",
     "daily_recommendations", "cleanup_old_data"}

\* All job ids that lifespan registers
JobIds == RecurringJobs \cup {"initial_health_check"}

\* scheduler = AsyncIOScheduler(): stopped, no job
NewScheduler == [running |-> FALSE, jobs |-> {}]

NoStartup ==
    [starts |-> 0, added_running |-> {}, added_stopped |-> {}, began |-> <<>>]

\* The process is about to enter lifespan
BeforeStartup ==
    /\ lpc = 1
    /\ scheduler = NewScheduler
    /\ slog = NoStartup

\* lifespan has yielded and the one-shot initial job has left the job
\* store: the scheduler runs with the recurring jobs
AfterStartup ==
    /\ lpc = Len(LifespanSteps) + 1
    /\ scheduler = [running |-> TRUE, jobs |-> RecurringJobs]
    /\ slog = [starts |-> 1, added_running |-> JobIds, added_stopped |-> {},
               began |-> <<Len(LifespanSteps) + 1>>]

\* The module-level state and the handlers, none of them running
InitHandlers ==
    /\ InitCache
    /\ clock = 1
    /\ rpc = "idle"
    /\ rsystems = <<>>
    /\ rlog = <<>>
    /\ lastRead = <<>>
    /\ stored = <<>>
    /\ invalidated_at = 0
    /\ cpc = "idle"
    /\ ci = 0
    /\ total_count = 0
    /\ cutoff_id = 0
    /\ clog = NoSweep
    /\ rcaller = "None"
    /\ glog = <<>>
    /\ mlog = <<>>
    /\ lastRecRead = <<>>

\* The process after startup, no job running
InitProcess == InitHandlers /\ AfterStartup

EmptyStore ==
    /\ system_health = <<>>
    /\ workflow_events = <<>>
    /\ next_id = 1
    /\ ai_recommendations = <<>>

\* The store, the cache and the jobs as they are at process start
InitHub ==
    /\ EmptyStore
    /\ replies = <<>>
    /\ InitProcess

InitProbe ==
    /\ InitHub
    /\ ppc = "attempt"
    /\ system_key \in ProbeKeys
    /\ net \in [1..ScriptLen -> Outcomes]
    /\ attempt = 0
    /\ calls = 0
    /\ delays = <<>>
    /\ elapsed = 0
    /\ last = NoAttempt
    /\ ret = <<>>

NextProbe == AttemptCheck \/ BackoffSleep

SpecProbe == InitProbe /\ [][NextProbe]_vars

-----------------------------------------------------------------------------
(* The registry the fan-out runs over *)

MaxMedium == 1
MaxRows == 3
MaxTicks == 2

MediumKeys == SubSeq(MediumKeysAll, 1, MaxMedium)
SystemKeys == HighKeys \o MediumKeys

Range(seq) == {seq[i] : i \in 1..Len(seq)}

\* check_high_priority_systems, check_medium_priority_systems, check_all_systems
Tier(t) ==
    IF t = "high" THEN HighKeys
    ELSE IF t = "medium" THEN MediumKeys
    ELSE SystemKeys

Tiers == {"high", "medium", "all"}

-----------------------------------------------------------------------------
(* The TTL cache and get_health_overview *)

HealthOverviewTTL == 60

RowsOf(k) == {system_health[i] : i \in {j \in 1..Len(system_health) :
                                          system_health[j].system_name = k}}

\* .order("created_at", desc=True).limit(1)
Latest(k) ==
    CHOOSE r \in RowsOf(k) : \A q \in RowsOf(k) : q.created_at <= r.created_at

LatestStatus(k) == IF RowsOf(k) = {} THEN "unknown" ELSE Latest(k).status

\* The body of get_health_overview when the store answers. as_of is not a
\* field of the program's dict: it tags the value with the number of rows
\* that had been inserted when it was computed.
HealthOverview(now) ==
    [systems |-> [k \in Range(SystemKeys) |-> LatestStatus(k)],
     overall_health |->
         Cardinality({k \in Range(SystemKeys) : LatestStatus(k) = "healthy"}),
     timestamp |-> now,
     as_of |-> next_id - 1]

\* The hit test with <= in the place of <
CacheHitAtTTL(entry, now, ttl) ==
    /\ entry.data # <<>>
    /\ entry.timestamp # NoneNum
    /\ entry.timestamp # 0
    /\ now - entry.timestamp <= ttl

\* if cache_entry and cache_entry["data"] is not None:
\*     if cache_entry["timestamp"] and (now - cache_entry["timestamp"]) < ttl:
CacheHit(entry, now, ttl) ==
    /\ entry.data # <<>>
    /\ entry.timestamp # NoneNum
    /\ entry.timestamp # 0
    /\ now - entry.timestamp < ttl

\* GET /api/health/overview: the wrapper of cached("health_overview", 60)
\* around get_health_overview. The body awaits nothing (the store client is
\* synchronous), so the call runs from the read of the clock to the store of
\* the result without another coroutine in between.
GetHealthOverview ==
    /\ LET now == clock
           entry == CACHE["health_overview"]
       IN  IF CacheHit(entry, now, HealthOverviewTTL)
           THEN /\ lastRead' = <<[kind |-> "hit", value |-> entry.data, at |-> now]>>
                /\ UNCHANGED <<CACHE, stored>>
           ELSE \E store_ok \in BOOLEAN :
                   IF store_ok
                   THEN LET result == HealthOverview(now) IN
                        /\ CACHE' = [CACHE EXCEPT !["health_overview"] =
                               [data |-> <<result>>, timestamp |-> now,
                                ttl |-> HealthOverviewTTL]]
                        /\ lastRead' =
                               <<[kind |-> "miss", value |-> <<result>>, at |-> now]>>
                        /\ stored' = <<[at |-> now, value |-> <<result>>]>>
                   \* a store query raises: HTTPException(500), nothing is stored
                   ELSE /\ lastRead' =
                               <<[kind |-> "failed", value |-> <<>>, at |-> now]>>
                        /\ UNCHANGED <<CACHE, stored>>
    /\ UNCHANGED <<probeVars, storeVars, runVars, invalidated_at, clock, extVars>>

TickSeconds == HealthOverviewTTL \div 2

\* time passes
Tick ==
    /\ clock < 1 + MaxTicks * TickSeconds
    /\ clock' = clock + TickSeconds
    /\ UNCHANGED <<probeVars, storeVars, runVars, cacheVars, extVars>>

-----------------------------------------------------------------------------
(* run_health_checks: the fan-out runner *)

\* An exception that leaves check_system_health (none of the network outcomes
\* does) and that gather(return_exceptions=True) hands back as a result.
ProbeFault == [kind |-> "fault", code |-> 0, jsonOk |-> FALSE, msg |-> "MemoryError"]

\* How the probes of a batch end. A timeout or error result takes the same
\* path through the loop as the unhealthy one (status != "healthy").
FanoutOutcomes == {Resp(200, TRUE), Resp(503, TRUE), ProbeFault}

\* One element of results = await asyncio.gather(*tasks, return_exceptions=True)
GatherResult(k, o) ==
    IF o.kind = "fault" THEN Raised(o.msg) ELSE CheckSystemHealth(k, o, 0)

\* The alert test left out: every stored result raises an alert
NeedsAlertAlways(health_data) == TRUE

\* if health_data["status"] != "healthy":
NeedsAlert(health_data) == health_data.status # "healthy"

\* The store calls of one iteration that can raise: the system_health insert,
\* or the workflow_events insert when there is one.
FailModes(o) ==
    IF o.kind = "fault" THEN {"none"}
    ELSE IF o.kind = "response" /\ o.code = 200 /\ o.jsonOk THEN {"none", "insert"}
    ELSE {"none", "insert", "alert"}

\* What one target of a batch meets: the end of its probe and the store call
\* of its iteration that raises, if any
Meets == {[out |-> o, fail |-> f] : o \in FanoutOutcomes, f \in {"none", "insert", "alert"}}
FanoutInputs == {m \in Meets : m.fail \in FailModes(m.out)}

\* The row the store keeps for supabase.table("system_health").insert(health_data);
\* created_at is the store's stamp, which grows with every insert.
Row(health_data, id) ==
    [id |-> id, created_at |-> id,
     system_name |-> health_data.system_name,
     status |-> health_data.status,
     response_time_ms |-> health_data.response_time_ms,
     error_message |-> health_data.error_message,
     metadata |-> health_data.metadata]

WorkflowEvent(health_data) ==
    [event_type |-> "system_health_alert",
     source_system |-> "management_hub",
     target_system |-> health_data.system_name,
     status |-> "completed",
     payload |-> health_data]

\* The state the loop over results works on
LoopState ==
    [health |-> system_health, events |-> workflow_events, next_id |-> next_id,
     cache |-> CACHE["health_overview"], invalidated_at |-> invalidated_at,
     stored |-> stored, rows |-> {}, alerts |-> {}, aborted |-> FALSE]

\* An exception leaves the loop: the remaining results are not processed
Abort(st) == [st EXCEPT !.aborted = TRUE]

\* The gathered exception re-raised in the place of "continue"
OnProbeExceptionAborts(st) == Abort(st)

\* if isinstance(health_data, Exception): logger.error(...); continue
OnProbeException(st) == st

\* The handler of the per-record try re-raising
OnStoreErrorRaises(st) == Abort(st)

\* except Exception as e: logger.error(...)
OnStoreError(st) == st

\* The invalidation left out
ClearCacheForgotten(entry) == entry

\* CACHE["health_overview"]["data"] = None
ClearCache(entry) == [entry EXCEPT !.data = <<>>]

InsertHealth(st, health_data) ==
    [st EXCEPT !.health = Append(@, Row(health_data, st.next_id)),
               !.next_id = @ + 1,
               !.rows = @ \cup {st.next_id}]

Invalidate(st) ==
    [st EXCEPT !.cache = ClearCache(@),
               !.invalidated_at = st.next_id - 1,
               !.stored = <<>>]

InsertAlert(st, health_data) ==
    [st EXCEPT !.events = Append(@, WorkflowEvent(health_data)),
               !.alerts = @ \cup {Len(st.events) + 1}]

\* The loop body with the cache cleared in the alert branch only
PersistOneClearsOnAlert(st, g, fail) ==
    IF st.aborted THEN st
    ELSE IF g.raised THEN OnProbeException(st)
    ELSE IF fail = "insert" THEN OnStoreError(st)
    ELSE LET s1 == InsertHealth(st, g.value) IN
         IF NeedsAlert(g.value)
         THEN IF fail = "alert"
              THEN OnStoreError(Invalidate(s1))
              ELSE InsertAlert(Invalidate(s1), g.value)
         ELSE s1

\* One iteration of "for health_data in results": g is the gathered result,
\* fail the store call of this iteration that raises ("none" when none does).
PersistOne(st, g, fail) ==
    IF st.aborted THEN st
    ELSE IF g.raised THEN OnProbeException(st)
    ELSE IF fail = "insert" THEN OnStoreError(st)
    ELSE LET s1 == Invalidate(InsertHealth(st, g.value)) IN
         IF NeedsAlert(g.value)
         THEN IF fail = "alert"
              THEN OnStoreError(s1)
              ELSE InsertAlert(s1, g.value)
         ELSE s1

RECURSIVE PersistLoop(_, _, _, _, _)
PersistLoop(st, keys, results, fails, i) ==
    IF i > Len(keys) THEN st
    ELSE PersistLoop(PersistOne(st, results[keys[i]], fails[keys[i]]),
                     keys, results, fails, i + 1)

\* run_health_checks(systems) up to its await: the probe tasks are created.
\* Runs that overlap share nothing while they gather, so one run at a time
\* stands for them.
BeginRun(t, caller) ==
    /\ rpc = "idle"
    /\ Len(system_health) + Len(Tier(t)) <= MaxRows
    /\ rpc' = "gather"
    /\ rsystems' = Tier(t)
    /\ rcaller' = caller
    /\ rlog' = <<>>
    /\ UNCHANGED <<probeVars, storeVars, cacheVars, clock>>

StartRun(t, caller) == BeginRun(t, caller) /\ UNCHANGED extVars

\* A scheduled job: check_high_priority_systems, check_medium_priority_systems
\* or check_all_systems
RunStart(t) == StartRun(t, "scheduler")

\* POST /api/health/check: trigger_health_check awaits check_all_systems()
TriggerHealthCheck == StartRun("all", "trigger_health_check")

\* What the caller of the run makes of its end: the scheduler nothing, the
\* endpoint {"message": "Health check completed", ...} or HTTPException(500)
StatusCode(caller, raised) ==
    IF caller # "trigger_health_check" THEN NoneNum
    ELSE IF raised THEN 500 ELSE 200

\* gather returns, and the loop over results runs to its end: it awaits
\* nothing, so no other coroutine runs in between.
RunFinish ==
    /\ rpc = "gather"
    /\ \E meets \in [Range(rsystems) -> FanoutInputs] :
         LET results == [k \in Range(rsystems) |-> GatherResult(k, meets[k].out)]
             fails == [k \in Range(rsystems) |-> meets[k].fail]
             st == PersistLoop(LoopState, rsystems, results, fails, 1)
         IN  /\ system_health' = st.health
             /\ workflow_events' = st.events
             /\ next_id' = st.next_id
             /\ CACHE' = [CACHE EXCEPT !["health_overview"] = st.cache]
             /\ invalidated_at' = st.invalidated_at
             /\ stored' = st.stored
             /\ rlog' = <<[systems |-> rsystems, results |-> results,
                           fails |-> fails, rows |-> st.rows,
                           alerts |-> st.alerts, raised |-> st.aborted,
                           caller |-> rcaller,
                           status_code |-> StatusCode(rcaller, st.aborted),
                           cached_before |-> CACHE["health_overview"].data # <<>>,
                           cached_after |-> st.cache.data # <<>>]>>
    /\ rpc' = "idle"
    /\ rsystems' = <<>>
    /\ rcaller' = "None"
    /\ UNCHANGED <<probeVars, lastRead, clock, extVars>>

-----------------------------------------------------------------------------
(* cleanup_old_data: the retention sweep *)

\* The number of rows the sweep keeps per target. The code keeps 1000
\* ("> 1000", range(999, 999)); the model keeps the last KeepLast.
KeepLast == 2
\* A target starts with up to KeepLast + MaxExcess rows
MaxExcess == 2
\* Rows written by others while the sweeps run: fewer than KeepLast, as
\* fewer than 1000 results of a target arrive during one sweep
MaxWrites == 1
MaxSweeps == 2

\* .select("id", count="exact").eq("system_name", system_key): response.count
CountExact(table, k) ==
    Cardinality({i \in 1..Len(table) : table[i].system_name = k})

\* if total_count > 1000:
OverLimit(count) == count > KeepLast

\* range(999, 999)
BoundaryOffset == KeepLast - 1

\* The boundary query ordered by created_at ascending
BoundaryQueryAscending(table, k) ==
    LET rows == {r \in Range(table) : r.system_name = k}
    IN  {r \in rows :
            /\ Cardinality({q \in rows : q.created_at < r.created_at}) <= BoundaryOffset
            /\ Cardinality({q \in rows : q.created_at <= r.created_at}) > BoundaryOffset}

\* .select("id").eq("system_name", system_key).order("created_at", desc=True)
\* .limit(1).range(999, 999): the rows that can stand at the offset in that
\* order (one row, or any row of a group with equal created_at that spans
\* the offset; none when the target has too few rows)
BoundaryQuery(table, k) ==
    LET rows == {r \in Range(table) : r.system_name = k}
    IN  {r \in rows :
            /\ Cardinality({q \in rows : q.created_at > r.created_at}) <= BoundaryOffset
            /\ Cardinality({q \in rows : q.created_at >= r.created_at}) > BoundaryOffset}

\* The delete filter with lte in the place of lt
DeleteFilterLte(r, k, cutoff) == r.system_name = k /\ r.id <= cutoff

\* The delete filter with gt in the place of lt
DeleteFilterGt(r, k, cutoff) == r.system_name = k /\ r.id > cutoff

\* .delete().eq("system_name", system_key).lt("id", cutoff_id)
DeleteFilter(r, k, cutoff) == r.system_name = k /\ r.id < cutoff

RECURSIVE Keep(_, _, _)
\* the table without the rows the delete filter selects
Keep(table, k, cutoff) ==
    IF table = <<>> THEN <<>>
    ELSE IF DeleteFilter(Head(table), k, cutoff)
         THEN Keep(Tail(table), k, cutoff)
         ELSE <<Head(table)>> \o Keep(Tail(table), k, cutoff)

Ids(table) == {table[i].id : i \in 1..Len(table)}

\* The scheduler starts cleanup_old_data (daily, 02:00)
CleanupStart ==
    /\ cpc = "idle"
    /\ clog.n < MaxSweeps
    /\ cpc' = "count"
    /\ ci' = 1
    /\ clog' = [NoSweep EXCEPT
                   !.n = clog.n + 1,
                   !.writes = clog.writes,
                   !.before = system_health,
                   !.after_clean = clog.done /\ ~clog.failed /\ ~clog.dirty]
    /\ UNCHANGED <<total_count, cutoff_id>>
    /\ UNCHANGED <<probeVars, storeVars, runVars, cacheVars, clock, recVars, startVars>>

\* except Exception as e: logger.error(...): the sweep ends where it is
CleanupFailed ==
    /\ cpc' = "idle"
    /\ clog' = [clog EXCEPT !.failed = TRUE, !.done = TRUE]
    /\ UNCHANGED <<ci, total_count, cutoff_id, system_health>>

\* The next iteration of "for system_key in SYSTEMS.keys()", or the end
CleanupNextTarget(log) ==
    IF ci < Len(SystemKeys)
    THEN /\ ci' = ci + 1
         /\ cpc' = "count"
         /\ clog' = log
    ELSE /\ ci' = ci
         /\ cpc' = "idle"
         /\ clog' = [log EXCEPT !.done = TRUE]

\* The count query of the current target and the test of its result
CleanupCount ==
    /\ cpc = "count"
    /\ \E store_ok \in BOOLEAN :
         IF store_ok
         THEN LET k == SystemKeys[ci]
                  count == CountExact(system_health, k)
                  log == [clog EXCEPT !.counted = @ \cup
                             {r.id : r \in {q \in Range(system_health) :
                                               q.system_name = k}}]
              IN  /\ total_count' = count
                  /\ IF OverLimit(count)
                     THEN /\ cpc' = "boundary"
                          /\ clog' = log
                          /\ ci' = ci
                     ELSE CleanupNextTarget(log)
                  /\ UNCHANGED <<cutoff_id, system_health>>
         ELSE CleanupFailed
    /\ UNCHANGED <<probeVars, workflow_events, next_id, runVars, cacheVars, clock, recVars, startVars>>

\* The boundary query of the current target and "if records.data:"
CleanupBoundary ==
    /\ cpc = "boundary"
    /\ \E store_ok \in BOOLEAN :
         IF store_ok
         THEN LET records == BoundaryQuery(system_health, SystemKeys[ci])
              IN  /\ IF records # {}
                     THEN /\ \E r \in records : cutoff_id' = r.id
                          /\ cpc' = "delete"
                          /\ UNCHANGED <<ci, clog>>
                     ELSE /\ CleanupNextTarget(clog)
                          /\ UNCHANGED cutoff_id
                  /\ UNCHANGED <<total_count, system_health>>
         ELSE CleanupFailed
    /\ UNCHANGED <<probeVars, workflow_events, next_id, runVars, cacheVars, clock, recVars, startVars>>

\* The delete of the current target
CleanupDelete ==
    /\ cpc = "delete"
    /\ \E store_ok \in BOOLEAN :
         IF store_ok
         THEN LET table == Keep(system_health, SystemKeys[ci], cutoff_id)
              IN  /\ system_health' = table
                  /\ CleanupNextTarget(
                         [clog EXCEPT !.deleted =
                             @ \cup (Ids(system_health) \ Ids(table))])
                  /\ UNCHANGED <<total_count, cutoff_id>>
         ELSE CleanupFailed
    /\ UNCHANGED <<probeVars, workflow_events, next_id, runVars, cacheVars, clock, recVars, startVars>>

\* The store serves other writers between two calls of the sweep: one
\* iteration of the loop of run_health_checks stores a healthy result of k.
ProbeWrite(k) ==
    /\ clog.writes < MaxWrites
    /\ LET st == PersistOne(LoopState, GatherResult(k, Resp(200, TRUE)), "none")
       IN  /\ system_health' = st.health
           /\ next_id' = st.next_id
           /\ CACHE' = [CACHE EXCEPT !["health_overview"] = st.cache]
           /\ invalidated_at' = st.invalidated_at
           /\ stored' = st.stored
           /\ clog' = [clog EXCEPT
                          !.writes = @ + 1,
                          !.dirty = TRUE,
                          !.during = IF cpc = "idle" THEN @ ELSE @ \cup st.rows,
                          !.mid = IF cpc \in {"boundary", "delete"}
                                     /\ k = SystemKeys[ci]
                                  THEN @ \cup st.rows ELSE @]
    /\ UNCHANGED <<cpc, ci, total_count, cutoff_id>>
    /\ UNCHANGED <<probeVars, workflow_events, runVars, lastRead, clock, recVars, startVars>>

RECURSIVE Seed(_, _, _)
\* The table after earlier runs stored counts[k] healthy results of target k
Seed(counts, i, table) ==
    IF i > Len(SystemKeys) THEN table
    ELSE Seed(counts, i + 1,
              table \o [j \in 1..counts[SystemKeys[i]] |->
                          Row(ProbeResult(SystemKeys[i], "healthy", 0, "None",
                                          JsonBody),
                              Len(table) + j)])

\* No probe in progress
NoProbe ==
    /\ ppc = "idle"
    /\ system_key = "None"
    /\ net = <<>>
    /\ attempt = 0
    /\ calls = 0
    /\ delays = <<>>
    /\ elapsed = 0
    /\ last = NoAttempt
    /\ ret = <<>>

\* A store that earlier runs have filled for the high-priority targets, and
\* the process with no job running
InitRetention ==
    /\ NoProbe
    /\ InitProcess
    /\ workflow_events = <<>>
    /\ ai_recommendations = <<>>
    /\ replies = <<>>
    /\ \E high \in [Range(HighKeys) -> 0..(KeepLast + MaxExcess)] :
         /\ system_health =
               Seed([k \in Range(SystemKeys) |->
                        IF k \in Range(HighKeys) THEN high[k] ELSE 0], 1, <<>>)
         /\ next_id = Len(system_health) + 1

NextRetention ==
    \/ CleanupStart
    \/ CleanupCount
    \/ CleanupBoundary
    \/ CleanupDelete
    \/ \E k \in Range(SystemKeys) : ProbeWrite(k)

SpecRetention == InitRetention /\ [][NextRetention]_vars

\* The most different values of created_at among the stored rows
MaxStamp == 2

\* The table with created_at as the store stamped it: the column is filled
\* by the store's clock at each insert, which can give two inserts the same
\* value and, when it is set back, a later insert a smaller value
Restamp(table, stamps) ==
    [i \in 1..Len(table) |-> [table[i] EXCEPT !.created_at = stamps[i]]]

\* A store that earlier runs have filled for the first high-priority target,
\* up to one row over the limit, with created_at free of the order of the ids
InitStamps ==
    /\ NoProbe
    /\ InitProcess
    /\ workflow_events = <<>>
    /\ ai_recommendations = <<>>
    /\ replies = <<>>
    /\ \E n \in 0..(KeepLast + 1) :
         \E stamps \in [1..n -> 1..MaxStamp] :
            /\ system_health =
                  Restamp(Seed([k \in Range(SystemKeys) |->
                                   IF k = HighKeys[1] THEN n ELSE 0], 1, <<>>),
                          stamps)
            /\ next_id = n + 1

SpecStamps == InitStamps /\ [][NextRetention]_vars

-----------------------------------------------------------------------------
(* generate_recommendations: the statistics handed to the generator *)

WindowLimit == 200

Min(a, b) == IF a < b THEN a ELSE b

Reverse(seq) == [i \in 1..Len(seq) |-> seq[Len(seq) + 1 - i]]

RECURSIVE Sum(_)
Sum(seq) == IF seq = <<>> THEN 0 ELSE Head(seq) + Sum(Tail(seq))

\* supabase.table("system_health").select("*").order("created_at", desc=True)
\* .limit(200): the table is kept in the order of created_at
HealthWindow(table) == SubSeq(Reverse(table), 1, Min(Len(table), WindowLimit))

\* the dict a system gets when its first record is met
NewStats ==
    [total |-> 0, healthy |-> 0, unhealthy |-> 0,
     errors |-> <<>>, response_times |-> <<>>]

\* if record.get('error_message'): neither None nor ""
TruthyText(t) == t # "None" /\ t # ""

\* if record.get('response_time_ms'): neither None nor 0
TruthyNumber(n) == n # NoneNum /\ n # 0

\* The body of "for record in health_data.data" for the dict of its system
AddRecord(stats, record) ==
    LET s1 == [stats EXCEPT !.total = @ + 1]
        s2 == IF record.status = "healthy"
              THEN [s1 EXCEPT !.healthy = @ + 1]
              ELSE [s1 EXCEPT !.unhealthy = @ + 1,
                              !.errors = IF TruthyText(record.error_message)
                                         THEN Append(@, record.error_message)
                                         ELSE @]
    IN  IF TruthyNumber(record.response_time_ms)
        THEN [s2 EXCEPT !.response_times = Append(@, record.response_time_ms)]
        ELSE s2

RECURSIVE SystemStats(_, _, _)
\* system_stats after the records window[i], window[i+1], ...
SystemStats(window, i, acc) ==
    IF i > Len(window) THEN acc
    ELSE LET name == window[i].system_name
             cur == IF name \in DOMAIN acc THEN acc[name] ELSE NewStats
         IN  SystemStats(window, i + 1,
                         [k \in DOMAIN acc \cup {name} |->
                             IF k = name THEN AddRecord(cur, window[i])
                             ELSE acc[k]])

\* A quotient of two integers, kept exact
Frac(n, d) == [num |-> n, den |-> d]

\* uptime = (stats['healthy'] / stats['total'] * 100) if stats['total'] > 0 else 0
Uptime(stats) ==
    IF stats.total > 0 THEN Frac(stats.healthy * 100, stats.total) ELSE Frac(0, 1)

\* avg_response = sum(...) / len(...) if stats['response_times'] else 0
AvgResponse(stats) ==
    IF stats.response_times # <<>>
    THEN Frac(Sum(stats.response_times), Len(stats.response_times))
    ELSE Frac(0, 1)

\* set(stats['errors'][:3])
RecentErrors(stats) == Range(SubSeq(stats.errors, 1, Min(Len(stats.errors), 3)))

\* The orders in which ', '.join(...) can meet the elements of a set: the
\* iteration order of a set of str is not fixed by the language
JoinOrders(S) == {seq \in [1..Cardinality(S) -> S] : Range(seq) = S}

\* The lines of the context for one system; errors is the order of the join
\* (no "Recent Errors" line when the system has no error)
SummaryOf(stats, errors) ==
    [uptime |-> Uptime(stats), avg_response |-> AvgResponse(stats),
     issues |-> stats.unhealthy, total |-> stats.total,
     recent_errors |-> errors]

\* The "System Health Summary" sections the context can hold
Contexts(system_stats) ==
    LET D == DOMAIN system_stats
        orders == UNION {JoinOrders(RecentErrors(system_stats[k])) : k \in D}
    IN  {[k \in D |-> SummaryOf(system_stats[k], f[k])] :
            f \in {g \in [D -> orders] :
                      \A k \in D : g[k] \in JoinOrders(RecentErrors(system_stats[k]))}}

-----------------------------------------------------------------------------
(* generate_recommendations: the generator's reply and its parsing *)

\* The reply text is a sequence of tokens: "[", "]" and "," as they are, "o"
\* for a JSON object ({}), "1" for a JSON number, "x" for a character of prose.
Tokens == {"[", "]", ",", "o", "1", "x"}

MaxText == 5

\* description: recommendations_text[:1000]. The code keeps 1000 characters;
\* the model keeps DescriptionLimit tokens.
DescriptionLimit == 3

Texts == UNION {[1..n -> Tokens] : n \in 0..MaxText}

\* anthropic_client.messages.create(...) raises, or there is no client
GeneratorFails == [kind |-> "fail", text |-> <<>>]

\* message.content[0].text
Reply(text) == [kind |-> "text", text |-> text]

\* re.search(r'\[[\s\S]*\]', recommendations_text): from the first "[" to the
\* last "]", <<>> when there is no match
JsonMatch(text) ==
    LET opens == {i \in 1..Len(text) : text[i] = "["}
        closes == {i \in 1..Len(text) : text[i] = "]"}
    IN  IF opens = {} \/ closes = {} THEN <<>>
        ELSE LET i == CHOOSE i \in opens : \A j \in opens : i <= j
                 k == CHOOSE k \in closes : \A j \in closes : j <= k
             IN  IF i < k THEN SubSeq(text, i, k) ELSE <<>>

RECURSIVE ParseValue(_, _), ParseArray(_, _), ParseMore(_, _)

\* json.loads on the tokens from position p: the position after one value,
\* 0 when there is no value there
ParseValue(t, p) ==
    IF p > Len(t) THEN 0
    ELSE IF t[p] \in {"o", "1"} THEN p + 1
    ELSE IF t[p] = "[" THEN ParseArray(t, p + 1)
    ELSE 0

\* after "[": "]" or a value
ParseArray(t, p) ==
    IF p > Len(t) THEN 0
    ELSE IF t[p] = "]" THEN p + 1
    ELSE LET q == ParseValue(t, p) IN IF q = 0 THEN 0 ELSE ParseMore(t, q)

\* after a value of an array: "]" or "," and a value
ParseMore(t, q) ==
    IF q > Len(t) THEN 0
    ELSE IF t[q] = "]" THEN q + 1
    ELSE IF t[q] = ","
         THEN LET r == ParseValue(t, q + 1) IN IF r = 0 THEN 0 ELSE ParseMore(t, r)
         ELSE 0

\* json.loads(json_match.group()) does not raise json.JSONDecodeError
JsonLoads(t) == ParseValue(t, 1) = Len(t) + 1

\* every element of the loaded list is a dict (rec.get exists): inside the
\* outer brackets there are objects and commas only
AllObjects(t) == \A i \in 2..(Len(t) - 1) : t[i] \in {"o", ","}

\* the number of elements of a loaded list of dicts
CountObjects(t) == Cardinality({i \in 1..Len(t) : t[i] = "o"})

\* formatted_recs.append({...}) for rec = {}: every rec.get gives its default
FormattedRec ==
    [recommendation_type |-> "general", priority |-> "medium",
     title |-> "System Recommendation", description |-> <<>>,
     system_name |-> "all", status |-> "active"]

\* The fallback with the whole text as description
FallbackWhole(text) ==
    [recommendation_type |-> "analysis", priority |-> "medium",
     title |-> "System Analysis Complete", description |-> text,
     system_name |-> "all", status |-> "active"]

\* # Fallback: return [{...}]
Fallback(text) ==
    [recommendation_type |-> "analysis", priority |-> "medium",
     title |-> "System Analysis Complete",
     description |-> SubSeq(text, 1, Min(Len(text), DescriptionLimit)),
     system_name |-> "all", status |-> "active"]

\* The outer handler re-raising
OnSynthesisErrorRaises == [raised |-> TRUE, recs |-> <<>>]

\* except Exception as e: logger.error(...); return []
OnSynthesisError == [raised |-> FALSE, recs |-> <<>>]

\* generate_recommendations from "# Parse response" on
ParseReply(text) ==
    LET json_match == JsonMatch(text) IN
    IF json_match # <<>> /\ JsonLoads(json_match)
    THEN IF AllObjects(json_match)
         THEN [raised |-> FALSE,
               recs |-> [i \in 1..CountObjects(json_match) |-> FormattedRec]]
         \* rec.get on an element that is no dict: AttributeError
         ELSE OnSynthesisError
    ELSE [raised |-> FALSE, recs |-> <<Fallback(text)>>]

\* generate_recommendations: what it returns, or that it raises
GenerateRecommendations(store_ok, reply) ==
    IF ~store_ok \/ reply.kind = "fail" THEN OnSynthesisError
    ELSE ParseReply(reply.text)

\* The row the store keeps for an inserted recommendation
RecRow(rec, id) ==
    [id |-> id, created_at |-> id, recommendation_type |-> rec.recommendation_type,
     priority |-> rec.priority, title |-> rec.title,
     description |-> rec.description, system_name |-> rec.system_name,
     status |-> rec.status]

RECURSIVE InsertAll(_, _, _, _)
\* "for rec in recommendations: insert(rec)" from index i on, the inserts of
\* the indexes in fails raising; stop: whether a raise leaves the loop
InsertAll(table, recs, fails, stop) ==
    IF recs = <<>> THEN table
    ELSE IF 1 \in fails
         THEN IF stop THEN table
              ELSE InsertAll(table, Tail(recs), {i - 1 : i \in fails \ {1}}, stop)
         ELSE InsertAll(Append(table, RecRow(Head(recs), Len(table) + 1)),
                        Tail(recs), {i - 1 : i \in fails}, stop)

\* generate_recommendations from "# Fetch comprehensive data" to the call of
\* the generator: the contexts it can build, none when a fetch raises
FetchAndSummarize(store_ok) ==
    IF store_ok
    THEN Contexts(SystemStats(HealthWindow(system_health), 1, <<>>))
    ELSE {<<>>}

\* One synthesis cycle as glog keeps it
Cycle(caller, store_ok, context, reply, res, fails, raised, table) ==
    [n |-> IF glog = <<>> THEN 1 ELSE glog[1].n + 1,
     caller |-> caller, store_ok |-> store_ok, context |-> context,
     reply |-> reply,
     recs |-> res.recs, fails |-> fails, raised |-> raised,
     rows_before |-> Len(ai_recommendations), rows_after |-> Len(table),
     cached_after |-> CACHE'["recommendations"].data # <<>>,
     after_failure |-> glog # <<>> /\ glog[1].reply.kind = "fail"]

\* The scheduler runs generate_daily_recommendations (daily, 09:00). Nothing
\* in it awaits another coroutine: the store and the generator clients are
\* synchronous.
GenerateDaily ==
    /\ replies # <<>>
    /\ \E store_ok \in BOOLEAN :
       \E context \in FetchAndSummarize(store_ok) :
         LET res == GenerateRecommendations(store_ok, Head(replies)) IN
         \E fails \in SUBSET (1..Len(res.recs)) :
           LET table == IF res.raised THEN ai_recommendations
                        ELSE InsertAll(ai_recommendations, res.recs, fails, FALSE)
           IN  /\ ai_recommendations' = table
               /\ CACHE' = IF res.raised THEN CACHE
                           ELSE [CACHE EXCEPT !["recommendations"] = ClearCache(@)]
               /\ glog' = <<Cycle("generate_daily_recommendations", store_ok, context,
                                  Head(replies), res, fails, res.raised, table)>>
    /\ replies' = Tail(replies)
    /\ UNCHANGED <<mlog, lastRecRead, lastRead, stored, invalidated_at>>
    /\ UNCHANGED <<probeVars, storeVars, runVars, clock, cleanVars, startVars>>

\* POST /api/recommendations/generate: trigger_recommendations
TriggerRecommendations ==
    /\ replies # <<>>
    /\ \E store_ok \in BOOLEAN :
       \E context \in FetchAndSummarize(store_ok) :
         LET res == GenerateRecommendations(store_ok, Head(replies)) IN
         \E fails \in SUBSET (1..Len(res.recs)) :
           LET table == IF res.raised THEN ai_recommendations
                        ELSE InsertAll(ai_recommendations, res.recs, fails, TRUE)
               raised == res.raised \/ fails # {}
           IN  /\ ai_recommendations' = table
               \* an insert that raises skips "# Clear cache": HTTPException(500)
               /\ CACHE' = IF raised THEN CACHE
                           ELSE [CACHE EXCEPT !["recommendations"] = ClearCache(@)]
               /\ glog' = <<Cycle("trigger_recommendations", store_ok, context,
                                  Head(replies), res, fails, raised, table)>>
    /\ replies' = Tail(replies)
    /\ UNCHANGED <<mlog, lastRecRead, lastRead, stored, invalidated_at>>
    /\ UNCHANGED <<probeVars, storeVars, runVars, clock, cleanVars, startVars>>

RecommendationsTTL == 300

RECURSIVE RecQuery(_, _)
\* .select("*").eq("status", status).order("created_at", desc=True)
RecQuery(table, status) ==
    IF table = <<>> THEN <<>>
    ELSE LET rest == RecQuery(Tail(table), status) IN
         IF Head(table).status = status THEN Append(rest, Head(table)) ELSE rest

\* The body of get_recommendations when the store answers. as_of is not a
\* field of the program's dict: it tags the value with the number of rows
\* that had been inserted when it was computed.
Recommendations(status, limit, now) ==
    LET data == SubSeq(RecQuery(ai_recommendations, status), 1,
                       Min(Len(RecQuery(ai_recommendations, status)), limit))
    IN  [recommendations |-> data, count |-> Len(data), timestamp |-> now,
         cached |-> TRUE, as_of |-> Len(ai_recommendations)]

\* How a call of get_recommendations ended, with the number of rows of
\* ai_recommendations at that moment
RecRead(kind, value, status, limit) ==
    <<[kind |-> kind, value |-> value, status |-> status, limit |-> limit,
       rows |-> Len(ai_recommendations)]>>

\* GET /api/recommendations?status=..&limit=..: the wrapper of
\* cached("recommendations", 300) around get_recommendations
GetRecommendations(status, limit) ==
    /\ LET now == clock
           entry == CACHE["recommendations"]
       IN  IF CacheHit(entry, now, RecommendationsTTL)
           THEN /\ lastRecRead' = RecRead("hit", entry.data, status, limit)
                /\ UNCHANGED CACHE
           ELSE \E store_ok \in BOOLEAN :
                   IF store_ok
                   THEN LET result == Recommendations(status, limit, now) IN
                        /\ CACHE' = [CACHE EXCEPT !["recommendations"] =
                               [data |-> <<result>>, timestamp |-> now,
                                ttl |-> RecommendationsTTL]]
                        /\ lastRecRead' = RecRead("miss", <<result>>, status, limit)
                   ELSE /\ lastRecRead' = RecRead("failed", <<>>, status, limit)
                        /\ UNCHANGED CACHE
    /\ UNCHANGED <<ai_recommendations, replies, glog, mlog>>
    /\ UNCHANGED <<lastRead, stored, invalidated_at>>
    /\ UNCHANGED <<probeVars, storeVars, runVars, clock, cleanVars, startVars>>

-----------------------------------------------------------------------------
(* get_performance_metrics *)

\* round(n / d, 2), in hundredths
Round2(n, d) == (200 * n + d) \div (2 * d)

RECURSIVE Least(_)
Least(seq) ==
    IF Len(seq) = 1 THEN seq[1] ELSE Min(Head(seq), Least(Tail(seq)))

RECURSIVE Greatest(_)
Greatest(seq) ==
    IF Len(seq) = 1 THEN seq[1]
    ELSE LET g == Greatest(Tail(seq)) IN IF Head(seq) > g THEN Head(seq) ELSE g

RECURSIVE Select(_, _, _)
\* the rows of target k with created_at >= cutoff, most recent first
Select(table, k, cutoff) ==
    IF table = <<>> THEN <<>>
    ELSE LET rest == Select(Tail(table), k, cutoff)
             r == Head(table)
         IN  IF r.system_name = k /\ r.created_at >= cutoff
             THEN Append(rest, r) ELSE rest

RECURSIVE ResponseTimes(_)
\* [r["response_time_ms"] for r in response.data if r.get("response_time_ms")]
ResponseTimes(data) ==
    IF data = <<>> THEN <<>>
    ELSE IF TruthyNumber(Head(data).response_time_ms)
         THEN <<Head(data).response_time_ms>> \o ResponseTimes(Tail(data))
         ELSE ResponseTimes(Tail(data))

\* metrics[system_key]; the rounded values are in hundredths
MetricsOf(data) ==
    LET response_times == ResponseTimes(data)
        healthy_count ==
            Cardinality({i \in 1..Len(data) : data[i].status = "healthy"})
    IN  [total_checks |-> Len(data),
         healthy_checks |-> healthy_count,
         uptime_24h |-> Round2(healthy_count * 100, Len(data)),
         avg_response_time |->
             IF response_times # <<>>
             THEN Round2(Sum(response_times), Len(response_times)) ELSE NoneNum,
         min_response_time |->
             IF response_times # <<>>
             THEN Round2(Least(response_times), 1) ELSE NoneNum,
         max_response_time |->
             IF response_times # <<>>
             THEN Round2(Greatest(response_times), 1) ELSE NoneNum]

\* metrics: an entry for every system that has rows since the cutoff
PerformanceMetrics(table, cutoff) ==
    [k \in {q \in Range(SystemKeys) : Select(table, q, cutoff) # <<>>} |->
        MetricsOf(Select(table, k, cutoff))]

\* GET /api/metrics/performance; the cutoff (now - 24 h) falls anywhere
\* among the stamps of the stored rows
GetPerformanceMetrics ==
    /\ \E cutoff \in 1..next_id : \E store_ok \in BOOLEAN :
         mlog' = IF store_ok
                 THEN <<[status_code |-> 200, cutoff |-> cutoff,
                         systems |-> PerformanceMetrics(system_health, cutoff)]>>
                 ELSE <<[status_code |-> 500, cutoff |-> NoneNum,
                         systems |-> <<>>]>>
    /\ UNCHANGED <<ai_recommendations, replies, glog, lastRecRead>>
    /\ UNCHANGED <<probeVars, storeVars, runVars, cacheVars, clock, cleanVars, startVars>>

-----------------------------------------------------------------------------
(* The hub at one instant and over time *)

Init ==
    /\ InitHub
    /\ NoProbe

\* The fan-out runs of every tier and the cached reads, at one instant
Next ==
    \/ \E t \in Tiers : RunStart(t)
    \/ RunFinish
    \/ GetHealthOverview

Spec == Init /\ [][Next]_vars

\* The cached reads over time, with the high-priority sweep as the writer
NextCache ==
    \/ RunStart("high")
    \/ RunFinish
    \/ GetHealthOverview
    \/ Tick

SpecCache == Init /\ [][NextCache]_vars

MaxWindow == 4

\* What the probes of a target stored: healthy after 1 s and after 2 s,
\* HTTP 503 after 3 s, a timeout, a refused connection
StatResults(k) ==
    {CheckSystemHealth(k, Resp(200, TRUE), 1).value,
     CheckSystemHealth(k, Resp(200, TRUE), 2).value,
     CheckSystemHealth(k, Resp(503, TRUE), 3).value,
     CheckSystemHealth(k, TimeoutExc, AttemptTimeout).value,
     CheckSystemHealth(k, ConnectExc, 0).value}

\* A store that earlier runs have filled with results of the first target
\* and healthy results of the second, and a generator that will answer
InitStats ==
    /\ NoProbe
    /\ InitProcess
    /\ workflow_events = <<>>
    /\ ai_recommendations = <<>>
    /\ replies = <<Reply(<<"[", "]">>)>>
    /\ \E n \in 0..MaxWindow :
         \E results \in [1..n -> StatResults(HighKeys[1])
                                  \cup {CheckSystemHealth(HighKeys[2],
                                                          Resp(200, TRUE), 1).value}] :
            /\ system_health = [i \in 1..n |-> Row(results[i], i)]
            /\ next_id = n + 1

\* The statistics of the synthesis and of the metrics endpoint
NextStats ==
    \/ GenerateDaily
    \/ GetPerformanceMetrics

SpecStats == InitStats /\ [][NextStats]_vars

\* An empty store and a generator whose reply is any text
InitParse ==
    /\ NoProbe
    /\ InitProcess
    /\ EmptyStore
    /\ replies \in {<<Reply(t)>> : t \in Texts}

\* One synthesis cycle, scheduled or manual
NextParse ==
    \/ GenerateDaily
    \/ TriggerRecommendations

SpecParse == InitParse /\ [][NextParse]_vars

MaxCycles == 2

\* What the generator does in the cycles of SpecRecs: it fails, it answers
\* two recommendations, it answers prose
CycleReplies ==
    {GeneratorFails, Reply(<<"[", "o", ",", "o", "]">>), Reply(<<"x", "x">>)}

InitRecs ==
    /\ NoProbe
    /\ InitProcess
    /\ EmptyStore
    /\ replies \in [1..MaxCycles -> CycleReplies]

\* The synthesis cycles and the cached reads of the recommendations
NextRecs ==
    \/ GenerateDaily
    \/ TriggerRecommendations
    \/ \E status \in {"active", "dismissed"} : \E limit \in {1, 10} :
          GetRecommendations(status, limit)

SpecRecs == InitRecs /\ [][NextRecs]_vars

\* The manual full check and the cached reads
NextManual ==
    \/ TriggerHealthCheck
    \/ RunFinish
    \/ GetHealthOverview

SpecManual == Init /\ [][NextManual]_vars

-----------------------------------------------------------------------------
(* lifespan: startup and shutdown of the process, and the one-shot initial
   job. lifespan awaits nothing before its yield, and the AsyncIOScheduler
   runs its jobs as tasks of the same event loop: a job can begin only once
   lifespan has given up the loop. *)

\* the yield with lifespan behind it in place of the yield reached
YieldedBeforeYield(pc) == pc >= Len(LifespanSteps)

\* lifespan has executed its yield (startup has returned control)
Yielded(pc) == pc > Len(LifespanSteps)

\* scheduler.add_job(..., id=id, replace_existing=True)
AddJob(id) ==
    /\ scheduler' = [scheduler EXCEPT !.jobs = @ \cup {id}]
    /\ slog' = IF scheduler.running
               THEN [slog EXCEPT !.added_running = @ \cup {id}]
               ELSE [slog EXCEPT !.added_stopped = @ \cup {id}]

\* scheduler.start()
StartScheduler ==
    /\ scheduler' = [scheduler EXCEPT !.running = TRUE]
    /\ slog' = [slog EXCEPT !.starts = @ + 1]

\* The next statement of lifespan before its yield, or the yield
LifespanStep ==
    /\ lpc <= Len(LifespanSteps)
    /\ lpc' = lpc + 1
    /\ IF LifespanSteps[lpc] = "start" THEN StartScheduler
       ELSE IF LifespanSteps[lpc] = "yield" THEN UNCHANGED <<scheduler, slog>>
       ELSE AddJob(LifespanSteps[lpc])
    /\ UNCHANGED <<probeVars, storeVars, runVars, cacheVars, clock, cleanVars,
                   recVars>>

\* The running scheduler finds the date-triggered job due and the event loop
\* starts check_all_systems; the job leaves the job store
InitialHealthCheck ==
    /\ scheduler.running
    /\ "initial_health_check" \in scheduler.jobs
    /\ Yielded(lpc)
    /\ BeginRun("all", "scheduler")
    /\ scheduler' = [scheduler EXCEPT !.jobs = @ \ {"initial_health_check"}]
    /\ slog' = [slog EXCEPT !.began = <<lpc>>]
    /\ UNCHANGED <<lpc, cleanVars, recVars>>

\* The process terminates: lifespan resumes after its yield,
\* scheduler.shutdown()
Shutdown ==
    /\ lpc = Len(LifespanSteps) + 1
    /\ lpc' = lpc + 1
    /\ scheduler' = [scheduler EXCEPT !.running = FALSE]
    /\ UNCHANGED slog
    /\ UNCHANGED <<probeVars, storeVars, runVars, cacheVars, clock, cleanVars,
                   recVars>>

\* The process at its start: an empty store, lifespan not entered
InitStartup ==
    /\ NoProbe
    /\ EmptyStore
    /\ replies = <<>>
    /\ InitHandlers
    /\ BeforeStartup

NextStartup ==
    \/ LifespanStep
    \/ InitialHealthCheck
    \/ RunFinish
    \/ Shutdown

SpecStartup == InitStartup /\ [][NextStartup]_vars

-----------------------------------------------------------------------------
(* Claims about the Probe Executor, checked under SpecProbe *)

Statuses == {"healthy", "unhealthy", "timeout", "error"}

\* C1: whatever the network does on each attempt, check_system_health ends
\* after at most max_retries attempts, gives its caller exactly one
\* ProbeResult for the probed target with a status among healthy, unhealthy,
\* timeout, error, and never raises; until it ends it has returned nothing
\* and it can always take its next step.
C1_ExactlyOneResult ==
    /\ calls <= max_retries
    /\ ppc # "done" => ret = <<>> /\ ENABLED NextProbe
    /\ ppc = "done" =>
          /\ Len(ret) = 1
          /\ ~ret[1].raised
          /\ ret[1].value.system_name = system_key
          /\ ret[1].value.status \in Statuses

\* a probe that ran out of retries on a refused connection
C1_Witness ==
    /\ ppc = "done"
    /\ calls = max_retries
    /\ last.kind = "transport"
    /\ Len(ret) = 1
    /\ ret[1].value.status = "error"

\* C2: a probe whose first two attempts end in a transport failure and whose
\* third attempt would receive HTTP 200 makes three attempts, sleeps 1 s and
\* then 2 s, and returns healthy.
C2_ThreeAttemptsHealthy ==
    (/\ ppc = "done"
     /\ net[1].kind = "transport"
     /\ net[2].kind = "transport"
     /\ net[3] = Resp(200, TRUE))
    => /\ calls = 3
       /\ delays = <<1, 2>>
       /\ Len(ret) = 1
       /\ ret[1].value.status = "healthy"

\* C3: the returned status is fixed by how the last attempt ended: HTTP 200
\* gives healthy (with the decoded body as metadata), another code gives
\* unhealthy with "HTTP <code>", a timeout gives timeout, another transport
\* failure gives error with the failure's description.
C3_StatusByLastAttempt ==
    ppc = "done" =>
        LET r == ret[1].value IN
        /\ (last.kind = "response" /\ last.code = 200) =>
              /\ r.status = "healthy"
              /\ last.jsonOk => r.metadata = JsonBody
        /\ (last.kind = "response" /\ last.code # 200) =>
              /\ r.status = "unhealthy"
              /\ r.error_message = "HTTP " \o ToString(last.code)
        /\ last.kind = "timeout" => r.status = "timeout"
        /\ last.kind = "transport" =>
              /\ r.status = "error"
              /\ r.error_message = last.msg

\* C4: response_time_ms is present exactly when the final attempt received an
\* HTTP response, whatever its code and whatever decoding its body does.
C4_LatencyIffResponse ==
    ppc = "done" =>
        (ret[1].value.response_time_ms # NoneNum <=> last.kind = "response")

\* C19 as claimed: an attempt that ends in a timeout is not followed by a
\* backoff delay and a further attempt: after it the probe has ended.
C19_NoRetryAfterTimeout ==
    (calls > 0 /\ last.kind = "timeout") => ppc # "sleep"

\* C19 as amended: every attempt that ends without a response, by a timeout
\* as by any other transport failure, is followed by the backoff delay and a
\* further attempt unless it was the last of the max_retries attempts; an
\* attempt that receives a response, and the last attempt, end the probe.
C19_RetryAfterAnyFailure ==
    calls > 0 =>
        /\ (last.kind \in {"timeout", "transport"} /\ calls < max_retries) =>
              /\ ppc \in {"sleep", "attempt"}
              /\ Len(delays) = calls
              /\ delays[calls] = BackoffDelay(calls - 1)
              /\ ret = <<>>
        /\ (last.kind = "response" \/ calls = max_retries) =>
              /\ ppc = "done"
              /\ Len(delays) = calls - 1

\* the first attempt timed out and the probe sleeps before its next attempt
C19_Witness ==
    /\ ppc = "sleep"
    /\ calls = 1
    /\ last.kind = "timeout"
    /\ delays = <<BackoffDelay(0)>>

-----------------------------------------------------------------------------
(* Claims about the fan-out runner, checked under Spec *)

\* The rows and the alert events the latest completed run inserted
RunRows == {r \in Range(system_health) : r.id \in rlog[1].rows}
RunAlerts == {workflow_events[i] : i \in rlog[1].alerts}
RowsFor(k) == {r \in RunRows : r.system_name = k}
AlertsFor(k) == {e \in RunAlerts : e.target_system = k}
RunKeys == Range(rlog[1].systems)
ResultOf(k) == rlog[1].results[k]
FailOf(k) == rlog[1].fails[k]

\* the probe of k returned a result and its system_health insert went through
Stored(k) == ~ResultOf(k).raised /\ FailOf(k) # "insert"

\* C5 as claimed: a completed run has persisted exactly one row per target of
\* its set, has emitted an alert event for every result that is not healthy
\* and for no healthy result.
C5_OneRowPerTarget ==
    rlog # <<>> =>
        /\ Cardinality(RunRows) = Cardinality(RunKeys)
        /\ \A k \in RunKeys :
              /\ Cardinality(RowsFor(k)) = 1
              /\ ~ResultOf(k).raised
              /\ Cardinality(AlertsFor(k)) =
                    IF ResultOf(k).value.status # "healthy" THEN 1 ELSE 0

\* C5 as amended: a completed run has persisted exactly one row, carrying the
\* result, for each target whose probe returned a result and whose insert did
\* not fail, and no other row; it has emitted exactly one system_health_alert
\* event, with the result as payload, for each such target whose result is
\* not healthy and whose alert insert did not fail, and no other event. With
\* no fault and no store failure that is one row per target and one alert per
\* result that is not healthy.
C5_RowsAndAlerts ==
    rlog # <<>> =>
        /\ \A r \in RunRows : r.system_name \in RunKeys
        /\ \A e \in RunAlerts : e.target_system \in RunKeys
        /\ Cardinality(RunRows) = Cardinality({k \in RunKeys : Stored(k)})
        /\ \A k \in RunKeys :
              /\ Cardinality(RowsFor(k)) = IF Stored(k) THEN 1 ELSE 0
              /\ \A r \in RowsFor(k) : r.status = ResultOf(k).value.status
              /\ Cardinality(AlertsFor(k)) =
                    IF Stored(k) /\ ResultOf(k).value.status # "healthy"
                       /\ FailOf(k) = "none"
                    THEN 1 ELSE 0
              /\ \A e \in AlertsFor(k) :
                    /\ e.event_type = "system_health_alert"
                    /\ e.payload = ResultOf(k).value
        /\ Cardinality(RunAlerts) =
              Cardinality({k \in RunKeys : Cardinality(AlertsFor(k)) = 1})

\* the high-priority sweep with HTTP 200 and HTTP 503: two rows, one alert
C5_Witness ==
    /\ rlog # <<>>
    /\ rlog[1].systems = HighKeys
    /\ \A k \in RunKeys : Stored(k) /\ FailOf(k) = "none"
    /\ ResultOf(HighKeys[1]).value.status = "healthy"
    /\ ResultOf(HighKeys[2]).value.error_message = "HTTP 503"
    /\ {r.status : r \in RunRows} = {"healthy", "unhealthy"}
    /\ Cardinality(RunRows) = 2
    /\ Cardinality(RunAlerts) = 1

\* C6: in a completed run where the probe of one target raised, every other
\* target whose probe returned a result and whose own insert did not fail has
\* its result stored by that run.
C6_FaultIsolated ==
    rlog # <<>> =>
        \A j \in RunKeys : ResultOf(j).raised =>
            /\ RowsFor(j) = {}
            /\ \A k \in RunKeys \ {j} : Stored(k) =>
                  \E r \in RowsFor(k) : r.status = ResultOf(k).value.status

\* the first probe of the batch raised and a later target was stored
C6_Witness ==
    /\ rlog # <<>>
    /\ Len(rlog[1].systems) >= 2
    /\ ResultOf(rlog[1].systems[1]).raised
    /\ \E k \in RunKeys : Stored(k) /\ RowsFor(k) # {}

\* C7: a completed run never raises, and a store call that fails for one
\* result costs that record only: no row and no alert when the insert of the
\* row failed, the row but no alert when the insert of the alert failed, and
\* every other target whose probe returned and whose own insert did not fail
\* has its row.
C7_StoreFailureSkipped ==
    rlog # <<>> =>
        /\ ~rlog[1].raised
        /\ \A j \in RunKeys : (~ResultOf(j).raised /\ FailOf(j) # "none") =>
              /\ AlertsFor(j) = {}
              /\ FailOf(j) = "insert" => RowsFor(j) = {}
              /\ FailOf(j) = "alert" => Cardinality(RowsFor(j)) = 1
              /\ \A k \in RunKeys \ {j} : Stored(k) => Cardinality(RowsFor(k)) = 1

\* the insert of the first result failed and a later result was stored
C7_Witness ==
    /\ rlog # <<>>
    /\ Len(rlog[1].systems) >= 2
    /\ ~ResultOf(rlog[1].systems[1]).raised
    /\ FailOf(rlog[1].systems[1]) = "insert"
    /\ \E k \in RunKeys : Stored(k) /\ RowsFor(k) # {}

\* C8 as claimed: when a run completes the health_overview entry holds no
\* value, whatever the probes and the store writes of the run did.
C8_AlwaysInvalidated == rlog # <<>> => ~rlog[1].cached_after

\* C8 as amended: when a run that inserted at least one system_health row
\* completes, the health_overview entry holds no value, whatever the statuses
\* of the batch; a run that inserted no row leaves the entry as it found it.
C8_InvalidatedOnInsert ==
    rlog # <<>> =>
        /\ rlog[1].rows # {} => ~rlog[1].cached_after
        /\ rlog[1].rows = {} => (rlog[1].cached_after <=> rlog[1].cached_before)

\* an all-healthy batch found a cached overview and left none
C8_Witness ==
    /\ rlog # <<>>
    /\ rlog[1].cached_before
    /\ \A k \in RunKeys : Stored(k) /\ ResultOf(k).value.status = "healthy"
    /\ ~rlog[1].cached_after
    /\ CACHE["health_overview"].data = <<>>

\* C18: a manual full check whose probes fail but whose store calls all go
\* through is acknowledged as completed (200), the failing targets being
\* stored as data; a manual full check during which the store is unreachable
\* (every insert of the run fails) ends in a service error (500).
C18_ServiceErrorOnStoreFault ==
    (rlog # <<>> /\ rlog[1].caller = "trigger_health_check") =>
        LET returned == {k \in RunKeys : ~ResultOf(k).raised} IN
        /\ (\A k \in RunKeys : FailOf(k) = "none") =>
              /\ rlog[1].status_code = 200
              /\ \A k \in returned : Cardinality(RowsFor(k)) = 1
        /\ (returned # {} /\ \A k \in returned : FailOf(k) = "insert") =>
              rlog[1].status_code = 500

-----------------------------------------------------------------------------
(* Claims about the retention sweep, checked under SpecRetention *)

IdsOf(table, k) == {r.id : r \in {q \in Range(table) : q.system_name = k}}

\* a sweep has run to its end without a store failure, and nothing has been
\* written to the store since it started
SweepCompleted ==
    /\ cpc = "idle"
    /\ clog.n > 0
    /\ clog.done
    /\ ~clog.failed
    /\ ~clog.dirty

\* C11: a sweep that completes with no concurrent write leaves exactly
\* KeepLast rows of every target that had more, every remaining row of the
\* target with an identity greater than that of every deleted one, and leaves
\* a target with KeepLast rows or fewer unchanged; the rows it keeps are the
\* rows as they were.
C11_KeepsLatest ==
    SweepCompleted =>
        /\ Range(system_health) \subseteq Range(clog.before)
        /\ \A k \in Range(SystemKeys) :
              LET was == IdsOf(clog.before, k)
                  is == IdsOf(system_health, k)
              IN  IF Cardinality(was) > KeepLast
                  THEN /\ Cardinality(is) = KeepLast
                       /\ is \subseteq was
                       /\ \A r \in is : \A d \in was \ is : r > d
                  ELSE is = was

\* a target had KeepLast + 2 rows, its 2 oldest are gone; another is untouched
C11_Witness ==
    /\ SweepCompleted
    /\ \E k \in Range(SystemKeys) :
         /\ Cardinality(IdsOf(clog.before, k)) = KeepLast + 2
         /\ Cardinality(IdsOf(system_health, k)) = KeepLast
         /\ Cardinality(clog.deleted \cap IdsOf(clog.before, k)) = 2
    /\ \E k \in Range(SystemKeys) :
         /\ IdsOf(clog.before, k) # {}
         /\ IdsOf(system_health, k) = IdsOf(clog.before, k)

\* C12: a sweep started after a completed sweep, with nothing written to the
\* store since that one started, deletes no row and leaves the table as it
\* found it.
C12_SecondSweepNoOp ==
    (SweepCompleted /\ clog.after_clean) =>
        /\ clog.deleted = {}
        /\ system_health = clog.before

\* the second of two sweeps, the first of which deleted rows, has completed
C12_Witness ==
    /\ SweepCompleted
    /\ clog.after_clean
    /\ clog.n = 2
    /\ Cardinality(Ids(system_health)) < next_id - 1
    /\ \E k \in Range(SystemKeys) :
         Cardinality(IdsOf(system_health, k)) = KeepLast

\* C13: at every point of a sweep, the rows it has deleted existed when it
\* counted their target, and none of them was inserted during the sweep
\* (fewer than KeepLast rows arrive during one sweep).
C13_DeletesOnlyCounted ==
    /\ clog.deleted \subseteq clog.counted
    /\ clog.deleted \cap clog.during = {}
    /\ clog.during \subseteq Ids(system_health)

\* a row arrived between the count query and the delete of its target, the
\* sweep deleted older rows of that target and the new row is still there
C13_Witness ==
    /\ cpc = "idle"
    /\ clog.done
    /\ ~clog.failed
    /\ clog.mid # {}
    /\ clog.mid \subseteq Ids(system_health)
    /\ \E r \in Range(system_health) :
         /\ r.id \in clog.mid
         /\ clog.deleted \cap IdsOf(clog.before, r.system_name) # {}

-----------------------------------------------------------------------------
(* Claims about the statistics, checked under SpecStats *)

RECURSIVE DefinedLatencies(_)
\* the latencies of the results that have one, in the order of the window
DefinedLatencies(data) ==
    IF data = <<>> THEN <<>>
    ELSE IF Head(data).response_time_ms # NoneNum
         THEN <<Head(data).response_time_ms>> \o DefinedLatencies(Tail(data))
         ELSE DefinedLatencies(Tail(data))

HealthyCount(data) == Cardinality({i \in 1..Len(data) : data[i].status = "healthy"})

\* the window of target k, most recent first
WindowOf(k) == Select(system_health, k, 0)

NoneFrac == Frac(NoneNum, 1)

\* C14: in the summary handed to the generator and in the performance
\* metrics, the uptime of a target is healthy_count / sample_count * 100
\* (to the rounding of the metrics); the average (and in the metrics the
\* minimum and the maximum) latency is taken over exactly the results with a
\* defined latency and is none, not zero, when the window has no such result.
C14_SummaryStatistics ==
    /\ glog # <<>> =>
          \A k \in DOMAIN glog[1].context :
              LET data == WindowOf(k)
                  lat == DefinedLatencies(data)
                  c == glog[1].context[k]
              IN  /\ c.total = Len(data)
                  /\ c.uptime.num * Len(data) = HealthyCount(data) * 100 * c.uptime.den
                  /\ IF lat = <<>> THEN c.avg_response = NoneFrac
                     ELSE c.avg_response.num * Len(lat) = Sum(lat) * c.avg_response.den
    /\ (mlog # <<>> /\ mlog[1].status_code = 200) =>
          \A k \in DOMAIN mlog[1].systems :
              LET data == Select(system_health, k, mlog[1].cutoff)
                  lat == DefinedLatencies(data)
                  m == mlog[1].systems[k]
              IN  /\ m.total_checks = Len(data)
                  /\ m.uptime_24h = Round2(HealthyCount(data) * 100, Len(data))
                  /\ IF lat = <<>>
                     THEN /\ m.avg_response_time = NoneNum
                          /\ m.min_response_time = NoneNum
                          /\ m.max_response_time = NoneNum
                     ELSE /\ m.avg_response_time = Round2(Sum(lat), Len(lat))
                          /\ m.min_response_time = 100 * Least(lat)
                          /\ m.max_response_time = 100 * Greatest(lat)

RECURSIVE Messages(_)
\* the non-null error messages of a window, in its order
Messages(data) ==
    IF data = <<>> THEN <<>>
    ELSE IF Head(data).error_message # "None"
         THEN <<Head(data).error_message>> \o Messages(Tail(data))
         ELSE Messages(Tail(data))

RECURSIVE FirstDistinct(_, _)
\* acc, then the first messages of seq not met before, up to 3 in all
FirstDistinct(seq, acc) ==
    IF seq = <<>> \/ Len(acc) = 3 THEN acc
    ELSE IF Head(seq) \in Range(acc) THEN FirstDistinct(Tail(seq), acc)
    ELSE FirstDistinct(Tail(seq), Append(acc, Head(seq)))

\* C15: the recent errors of a target in the summary are the first 3
\* distinct non-null error messages of its window from the most recent
\* result on (all of them when there are fewer), in that order, each once.
C15_FirstThreeDistinctErrors ==
    glog # <<>> =>
        \A k \in DOMAIN glog[1].context :
            glog[1].context[k].recent_errors =
                FirstDistinct(Messages(WindowOf(k)), <<>>)

-----------------------------------------------------------------------------
(* Claims about the synthesis, checked under SpecParse and SpecRecs *)

\* no JSON array found, invalid JSON, or an element that is no object
ExtractionFails(text) ==
    LET json_match == JsonMatch(text) IN
    \/ json_match = <<>>
    \/ ~JsonLoads(json_match)
    \/ ~AllObjects(json_match)

\* C16: a cycle whose generator returned a text from which no list of
\* recommendation objects can be extracted yields exactly one recommendation,
\* the fallback, whose description is the whole text, unmodified.
C16_FallbackKeepsText ==
    (/\ glog # <<>>
     /\ glog[1].store_ok
     /\ glog[1].reply.kind = "text"
     /\ ExtractionFails(glog[1].reply.text))
    => glog[1].recs = <<FallbackWhole(glog[1].reply.text)>>

\* C17: a scheduled cycle whose generator fails returns no recommendation,
\* stores no row and does not raise to the scheduler; the scheduled cycle
\* that follows a failed one stores what its generator answers.
C17_FailedCycleStoresNothing ==
    (glog # <<>> /\ glog[1].caller = "generate_daily_recommendations") =>
        /\ ~glog[1].raised
        /\ glog[1].reply.kind = "fail" =>
              /\ glog[1].recs = <<>>
              /\ glog[1].rows_after = glog[1].rows_before
        /\ (glog[1].after_failure /\ glog[1].store_ok /\ glog[1].fails = {}) =>
              glog[1].rows_after = glog[1].rows_before + Len(glog[1].recs)

\* the generator failed in a scheduled cycle: nothing stored, nothing raised,
\* and the next cycle is still to come
C17_Witness ==
    /\ glog # <<>>
    /\ glog[1].caller = "generate_daily_recommendations"
    /\ glog[1].reply.kind = "fail"
    /\ glog[1].store_ok
    /\ glog[1].recs = <<>>
    /\ ~glog[1].raised
    /\ glog[1].rows_after = glog[1].rows_before
    /\ replies # <<>>

\* the scheduled cycle after a failed one stored two recommendations
C17_NextCycleStores ==
    /\ glog # <<>>
    /\ glog[1].caller = "generate_daily_recommendations"
    /\ glog[1].after_failure
    /\ glog[1].rows_after = glog[1].rows_before + 2

\* C20: no cached read returns as a hit a value computed before a row that
\* an ended operation wrote: a hit of get_recommendations returns a value
\* computed from all the rows of ai_recommendations, and a value held for
\* health_overview was computed from all the rows of system_health.
C20_NoHitOlderThanWrite ==
    /\ (lastRecRead # <<>> /\ lastRecRead[1].kind = "hit") =>
          lastRecRead[1].value[1].as_of >= lastRecRead[1].rows
    /\ CACHE["health_overview"].data # <<>> =>
          CACHE["health_overview"].data[1].as_of >= next_id - 1

-----------------------------------------------------------------------------
(* Claims about the cache *)

\* C9: a read of health_overview less than the TTL after the read that last
\* stored a value, with no invalidation since, computes nothing and returns
\* the stored value; a read at least the TTL after it, or after an
\* invalidation, or with nothing stored yet, invokes the computation.
C9_HitWithinTTL ==
    [][GetHealthOverview =>
        LET fresh == /\ stored # <<>>
                     /\ clock - stored[1].at < HealthOverviewTTL
        IN  /\ fresh => lastRead' = <<[kind |-> "hit", value |-> stored[1].value,
                                      at |-> clock]>>
            /\ ~fresh => /\ lastRead'[1].kind \in {"miss", "failed"}
                         /\ lastRead'[1].kind = "miss" =>
                               /\ stored' = <<[at |-> clock,
                                               value |-> lastRead'[1].value]>>
                               /\ lastRead'[1].value = <<HealthOverview(clock)>>
    ]_vars

\* a read some time after the store, within the TTL, was a hit
C9_Witness ==
    /\ lastRead # <<>>
    /\ stored # <<>>
    /\ lastRead[1].kind = "hit"
    /\ lastRead[1].at > stored[1].at
    /\ lastRead[1].value = stored[1].value

\* a read after a run invalidated the entry computed again, inside the TTL
C9_RecomputedAfterInvalidate ==
    /\ lastRead # <<>>
    /\ stored # <<>>
    /\ lastRead[1].kind = "miss"
    /\ invalidated_at > 0
    /\ CACHE["health_overview"].timestamp = lastRead[1].at
    /\ lastRead[1].value[1].as_of >= invalidated_at

\* C10: the health_overview entry never holds a value computed before the
\* latest invalidation: a held value was computed from at least the rows that
\* had been inserted when the cache was last invalidated, and shows the latest
\* status of every target.
C10_NoValueOlderThanInvalidate ==
    LET data == CACHE["health_overview"].data IN
    data # <<>> =>
        /\ data[1].as_of >= invalidated_at
        /\ data[1].systems = [k \in Range(SystemKeys) |-> LatestStatus(k)]

\* a read after an invalidating run stored a value computed from its rows
C10_Witness ==
    LET data == CACHE["health_overview"].data IN
    /\ data # <<>>
    /\ invalidated_at > 0
    /\ data[1].as_of >= invalidated_at
    /\ \E k \in Range(SystemKeys) : data[1].systems[k] # "unknown"

-----------------------------------------------------------------------------
(* Claims about a store failure during the retention sweep, checked under
   SpecRetention *)

\* a sweep has ended in its except clause, and nothing has been written to
\* the store since it started; ci is the target whose store call failed
SweepFailed ==
    /\ cpc = "idle"
    /\ clog.n > 0
    /\ clog.done
    /\ clog.failed
    /\ ~clog.dirty

\* C25: when a store call of the sweep fails for one target and nothing is
\* written during the sweep, the sweep still leaves every other target with
\* at most KeepLast rows.
C25_FailureSparesOtherTargets ==
    SweepFailed =>
        \A i \in 1..Len(SystemKeys) :
            i # ci => Cardinality(IdsOf(system_health, SystemKeys[i])) <= KeepLast

\* What the code does instead: the targets before the failing one have been
\* swept, the failing one and all those after it are as the sweep found them.
C25_FailureEndsSweep ==
    SweepFailed =>
        \A i \in 1..Len(SystemKeys) :
            LET was == IdsOf(clog.before, SystemKeys[i])
                is == IdsOf(system_health, SystemKeys[i])
            IN  IF i < ci
                THEN Cardinality(is) <= KeepLast
                ELSE is = was

\* the first target's count query failed and the second target, over the
\* limit, was never looked at
C25_Witness ==
    /\ SweepFailed
    /\ ci = 1
    /\ clog.counted = {}
    /\ Cardinality(IdsOf(system_health, SystemKeys[2])) > KeepLast

-----------------------------------------------------------------------------
(* Claims about the parameters of GET /api/recommendations, checked under
   SpecRecs *)

\* the response answers a request for at most limit recommendations of status
AnswersRequest(response, status, limit) ==
    /\ \A i \in 1..Len(response.recommendations) :
          response.recommendations[i].status = status
    /\ Len(response.recommendations) <= limit
    /\ response.count = Len(response.recommendations)

\* C24: every response of get_recommendations, served from the cache or
\* computed, holds only recommendations of the requested status and at most
\* the requested limit of them.
C24_ResponseAnswersRequest ==
    (lastRecRead # <<>> /\ lastRecRead[1].kind \in {"hit", "miss"}) =>
        AnswersRequest(lastRecRead[1].value[1], lastRecRead[1].status,
                       lastRecRead[1].limit)

\* What the code does hold: a response computed on a miss answers its request.
C24_MissAnswersRequest ==
    (lastRecRead # <<>> /\ lastRecRead[1].kind = "miss") =>
        AnswersRequest(lastRecRead[1].value[1], lastRecRead[1].status,
                       lastRecRead[1].limit)

\* two recommendations are stored, a request with limit 10 was computed and
\* cached, and a later request with limit 1 is a hit that returns both
C24_Witness ==
    /\ lastRecRead # <<>>
    /\ lastRecRead[1].kind = "hit"
    /\ lastRecRead[1].limit = 1
    /\ Len(lastRecRead[1].value[1].recommendations) = 2

-----------------------------------------------------------------------------
(* Claims about the retention boundary when created_at and id disagree,
   checked under SpecStamps *)

\* the ids of was that have fewer than KeepLast greater ids of was above them
GreatestIds(was) ==
    {id \in was : Cardinality({j \in was : j > id}) < KeepLast}

\* some rows of the table have the same created_at, or a greater id with a
\* smaller created_at
StampsDisagree(table) ==
    \E r, q \in Range(table) :
        /\ r.system_name = q.system_name
        /\ r.id < q.id
        /\ r.created_at >= q.created_at

\* C21: whatever the created_at of the stored rows, a sweep that completes
\* with no concurrent write keeps, of every target over the limit, exactly
\* the KeepLast rows with the greatest ids.
C21_KeepsGreatestIds ==
    SweepCompleted =>
        \A k \in Range(SystemKeys) :
            Cardinality(IdsOf(clog.before, k)) > KeepLast =>
                IdsOf(system_health, k) = GreatestIds(IdsOf(clog.before, k))

\* What the code does hold: the rows deleted are those with an id below that
\* of a row that stood at the offset, so all of them when created_at follows
\* the ids, and more or fewer when it does not.
C21_KeepsGreatestIdsInOrder ==
    (SweepCompleted /\ ~StampsDisagree(clog.before)) =>
        \A k \in Range(SystemKeys) :
            Cardinality(IdsOf(clog.before, k)) > KeepLast =>
                IdsOf(system_health, k) = GreatestIds(IdsOf(clog.before, k))

\* rows with equal created_at spanned the offset, the sweep took the newest
\* id as the boundary and left fewer than KeepLast rows of the target
C21_Witness ==
    /\ SweepCompleted
    /\ StampsDisagree(clog.before)
    /\ \E k \in Range(SystemKeys) :
         /\ Cardinality(IdsOf(clog.before, k)) > KeepLast
         /\ Cardinality(IdsOf(system_health, k)) < KeepLast

-----------------------------------------------------------------------------
(* Claims about startup, checked under SpecStartup *)

\* C22 as stated: the scheduler is started at most once, it runs only with
\* every recurring job registered, and no job was added to a running
\* scheduler.
C22_StartedAfterRegistration ==
    /\ slog.starts <= 1
    /\ scheduler.running => RecurringJobs \subseteq scheduler.jobs
    /\ slog.added_running = {}

\* C22 amended: the scheduler is started at most once and before any job is
\* registered: every job is added to the running scheduler; when lifespan
\* yields the scheduler has been started once and all five jobs have been
\* registered, and the initial job begins only after that.
C22_StartedBeforeRegistration ==
    /\ slog.starts <= 1
    /\ slog.added_stopped = {}
    /\ scheduler.jobs # {} => scheduler.running \/ lpc = Len(LifespanSteps) + 2
    /\ lpc > Len(LifespanSteps) =>
          /\ slog.starts = 1
          /\ slog.added_running = JobIds
          /\ RecurringJobs \subseteq scheduler.jobs
    /\ slog.began # <<>> => slog.added_running = JobIds

\* lifespan has yielded with the scheduler running and all jobs registered
C22_Witness ==
    /\ lpc = Len(LifespanSteps) + 1
    /\ scheduler.running
    /\ scheduler.jobs = JobIds
    /\ slog.added_running = JobIds
    /\ slog.starts = 1

\* C23: whenever the initial job has begun (check_all_systems has started
\* its probes), lifespan had executed its yield at that moment.
C23_InitialJobAfterYield ==
    slog.began # <<>> => slog.began[1] > Len(LifespanSteps)

\* the initial job has begun after the yield, and its run has stored the
\* results of all targets
C23_Witness ==
    /\ slog.began # <<>>
    /\ slog.began[1] = Len(LifespanSteps) + 1
    /\ "initial_health_check" \notin scheduler.jobs
    /\ rpc = "idle"
    /\ rlog # <<>>
    /\ rlog[1].caller = "scheduler"
    /\ rlog[1].systems = SystemKeys
    /\ Len(system_health) = Len(SystemKeys)

====
